---- MODULE Spec2Model ----
(***************************************************************************)
(* Model of the dragoneye-node prediction-task orchestration               *)
(* (Classification._predictUnified and the calls it awaits).  One state is *)
(* the position of one predictImage/predictVideo run between two awaits;   *)
(* one action is the code that runs when an awaited promise settles.       *)
(***************************************************************************)
EXTENDS Integers, Sequences, FiniteSets, TLC

\* ---------------------------------------------------------------- bounds
\* status requests one run may issue
MaxPolls == 3
\* largest timeoutSeconds argument drawn
MaxTimeoutSeconds == 2
\* longest signed_urls array in a begin response
MaxSignedUrls == 2
\* longest network latency, in clock ticks
MaxDelayTicks == 1
\* how late the sleep timer may fire, in clock ticks
MaxLateTicks == 1
MaxSuffixLen == 2
MaxRuns == 2
MaxRunPolls == 1
MaxToBlobCalls == 2
MaxClients == 2
MaxClientRequests == 1

\* ------------------------------------------------------- program constants
DefaultPollingIntervalMs == 1000
MsPerSecond == 1000
DefaultFramesPerSecond == 1
TickMs == DefaultPollingIntervalMs \div 2

BASE_API_URL == "https://api.dragoneye.ai"
PREDICTED_STATUS == <<"p","r","e","d","i","c","t","e","d">>
FAILED_STATUS_PREFIX_Fail == <<"f","a","i","l">>
FAILED_STATUS_PREFIX == <<"f","a","i","l","e","d">>

\* an optional value: <<>> is undefined, <<x>> is x
Undefined == <<>>
Some(x) == <<x>>

\* String.prototype.startsWith
startsWith(s, p) == Len(s) >= Len(p) /\ SubSeq(s, 1, Len(p)) = p

\* ------------------------------------------------------ status predicates
isTaskSuccessfulPrefix(status) == startsWith(status, PREDICTED_STATUS)
isTaskSuccessful(status) == status = PREDICTED_STATUS

isTaskFailedExact(status) == status = FAILED_STATUS_PREFIX
isTaskFailed(status) == startsWith(status, FAILED_STATUS_PREFIX)

isTaskCompleteOnlySuccess(status) == isTaskSuccessful(status)
isTaskComplete(status) == isTaskSuccessful(status) \/ isTaskFailed(status)

\* ------------------------------------------------- the remote service's data
PENDING == <<"p","e","n","d","i","n","g">>
PREDICTED_X == PREDICTED_STATUS \o <<"_","x">>
FAILED_INVALID_INPUT == FAILED_STATUS_PREFIX \o <<"_","i","n","v","a","l","i","d","_","i","n","p","u","t">>
InProgressStates == {PENDING, PREDICTED_X}
FinalStates == {PREDICTED_STATUS, FAILED_STATUS_PREFIX, FAILED_INVALID_INPUT}
TaskStates == InProgressStates \cup FinalStates
\* how far a state is along pending -> {predicted | failed:<reason>}
Rank(state) ==
  IF state = PENDING THEN 0 ELSE IF state \in InProgressStates THEN 1 ELSE 2

\* a decoded JSON scalar, and String(v) of it
JsonString(chars) == <<"string", chars>>
JsonNumber(n) == <<"number", n>>
Digits == <<"0","1","2","3","4","5","6","7","8","9">>
RECURSIVE Decimal(_)
Decimal(n) ==
  IF n < 10 THEN <<Digits[n + 1]>>
            ELSE Decimal(n \div 10) \o <<Digits[(n % 10) + 1]>>
String(v) == IF v[1] = "number" THEN Decimal(v[2]) ELSE v[2]

\* MIME strings, as sequences of characters
IMAGE_SLASH == <<"i","m","a","g","e","/">>
VIDEO_SLASH == <<"v","i","d","e","o","/">>
IMAGE_PNG == IMAGE_SLASH \o <<"p","n","g">>
VIDEO_MP4 == VIDEO_SLASH \o <<"m","p","4">>

\* a Blob, and a Media object: its class and its three fields
Blob(bytes, type) == [bytes |-> bytes, type |-> type]
MediaObject(class, blob, mimeType, name) ==
  [class |-> class, blob |-> blob, mimeType |-> mimeType, name |-> name]
\* Media.toBlob
toBlob(media) == media.blob

\* FormData.append(name, value) and FormData.append(name, blob, filename)
TextPart(name, value) ==
  [name |-> name, text |-> Some(value), blob |-> Undefined,
   filename |-> Undefined]
FilePart(name, blob, filename) ==
  [name |-> name, text |-> Undefined, blob |-> Some(blob),
   filename |-> Some(filename)]

\* the media and model name the runs are given
RunImages == { MediaObject("Image", Blob(<<137, 80>>, IMAGE_PNG), IMAGE_PNG,
                           Undefined) }
RunVideos == { MediaObject("Video", Blob(<<0, 24>>, VIDEO_MP4), VIDEO_MP4,
                           Some("clip")) }
ModelNames == {"dragoneye/animals"}

UUIDs == {"abc", "xyz"}
PredictionTypes == {"image", "video"}
\* arrays of k targets, for each k and each target that can come first
SignedTarget(i) ==
  IF i % 2 = 1
    THEN [url |-> "https://u",
          fields |-> << <<"k", JsonString(<<"v">>)>>,
                        <<"b", JsonNumber(10)>> >>]
    ELSE [url |-> "https://w", fields |-> <<>>]
SignedUrlArrays(n) ==
  { [i \in 1..k |-> SignedTarget(i + off)] : k \in 0..n, off \in 0..1 }
BeginBodies ==
  [prediction_task_uuid : UUIDs, prediction_type : PredictionTypes,
   signed_urls : SignedUrlArrays(MaxSignedUrls)]
\* the service reports the task's type and state; the UUID it echoes is
\* left open
StatusBodies(type, state) ==
  [prediction_task_uuid : UUIDs, prediction_type : {type},
   status : {state}]
ResultPayloads ==
  { [predictions |-> <<>>],
    [predictions |-> <<>>, prediction_task_uuid |-> "xyz"],
    [timestamp_us_to_predictions |-> <<>>, frames_per_second |-> 1] }

TimeoutInputs == {Undefined} \cup { Some(t) : t \in 0..MaxTimeoutSeconds }
NetDelays == { k * TickMs : k \in 0..MaxDelayTicks }
SleepDelays(ms) == { ms + k * TickMs : k \in 0..MaxLateTicks }

\* ----------------------------------------------------------------- errors
NoOutcome == [kind |-> "none", name |-> "", text |-> "",
              state |-> <<>>, uuid |-> "", timeout |-> Undefined]
Error(name, text) == [kind |-> "error", name |-> name, text |-> text,
                      state |-> <<>>, uuid |-> "", timeout |-> Undefined]
Returned == [kind |-> "result", name |-> "", text |-> "",
             state |-> <<>>, uuid |-> "", timeout |-> Undefined]

PredictionTaskBeginError(text) == Error("PredictionTaskBeginError", text)
PredictionUploadError(text) == Error("PredictionUploadError", text)
PredictionTaskError(text) == Error("PredictionTaskError", text)
PredictionTaskResultsUnavailableError(text) ==
  Error("PredictionTaskResultsUnavailableError", text)
\* what fetch rejects with, and what Response.json and a property read of
\* undefined throw
FetchRejection == Error("TypeError", "fetch failed")
JsonSyntaxError == Error("SyntaxError", "Unexpected token")
UndefinedReadError == Error("TypeError", "Cannot read properties of undefined")

TaskFailedErrorNoState(state) == PredictionTaskError("Prediction task failed: ")
TaskFailedError(state) ==
  [PredictionTaskError("Prediction task failed: ") EXCEPT !.state = state]

TimeoutErrorNoUuid(uuid, timeout) ==
  [PredictionTaskError("did not complete within") EXCEPT !.timeout = timeout]
TimeoutError(uuid, timeout) ==
  [PredictionTaskError("did not complete within")
     EXCEPT !.uuid = uuid, !.timeout = timeout]

\* ------------------------------------------------------------------ state
VARIABLES
  apiKey,          \* Dragoneye.apiKey
  pc,              \* the await the run is suspended at
  timeoutSeconds,  \* argument of the run
  framesPerSecond, \* argument of the run
  called,          \* the public method called, with the framesPerSecond
                   \* the caller passed to it
  media,           \* argument of the run
  modelName,       \* argument of the run
  calls,           \* requests issued, in order
  responses,       \* how each request settled, in order
  beginResp,       \* body of the begin response, once decoded
  taskState,       \* the task's state on the server
  now,             \* performance.now()
  startTime,       \* startTime of _waitForPredictionTaskCompletion
  status,          \* what _waitForPredictionTaskCompletion returned
  statusSeen,      \* the states the status checks returned, in order
  sleeps,          \* completed sleep(pollingIntervalMs) calls
  outcome,         \* how the run settled
  returned,        \* the value the run resolved to
  resultsBody,     \* payload of the results response, once decoded
  probe,           \* a state string handed to the status predicates
  verdict,         \* what the three predicates answered for it
  cons,            \* the Media construction under way, or the last one
  runs,            \* the runs in progress at once on the client, each
                   \* with the locals of its _predictUnified call
  env,             \* process.env.DRAGONEYE_API_KEY
  clients          \* the new Dragoneye(...) calls made, each with what it
                   \* was given, what it gave and the requests issued
                   \* through the client

vars == <<apiKey, pc, timeoutSeconds, framesPerSecond, called, media,
          modelName,
          calls, responses, beginResp, taskState, now, startTime, status,
          statusSeen, sleeps, outcome, returned, resultsBody, probe,
          verdict, cons, runs, env, clients>>

Request(op, url, uuid, auth, form) ==
  [op |-> op, url |-> url, uuid |-> uuid, auth |-> auth, form |-> form]
Bearer(key) == <<"Bearer", key>>
NoAuthBearer == Bearer(apiKey)
NoAuth == <<>>
\* a GET request has no body
NoForm == <<>>
Settled(op, how) == [op |-> op, how |-> how]

Last(q) == q[Len(q)]
CallsOf(op) == { i \in 1..Len(calls) : calls[i].op = op }
NumStatusCalls == Cardinality(CallsOf("status"))

\* a client on which no run has started
RunIdle ==
  /\ apiKey = "key"
  /\ pc = "idle"
  /\ timeoutSeconds = Undefined
  /\ framesPerSecond = Undefined
  /\ called = Undefined
  /\ media = Undefined
  /\ modelName = Undefined
  /\ calls = <<>>
  /\ responses = <<>>
  /\ beginResp = Undefined
  /\ taskState = PENDING
  /\ now = TickMs
  /\ startTime = 0
  /\ status = Undefined
  /\ statusSeen = <<>>
  /\ sleeps = 0
  /\ outcome = NoOutcome
  /\ returned = Undefined
  /\ resultsBody = Undefined

\* no state string has been classified
ProbeIdle ==
  /\ probe = Undefined
  /\ verdict = Undefined

\* no Media construction has been called
MediaIdle == cons = Undefined

\* the locals of a _predictUnified call, before the call
IdleRun ==
  [pc |-> "idle", media |-> Undefined, modelName |-> Undefined,
   framesPerSecond |-> Undefined, calls |-> <<>>, beginResp |-> Undefined,
   polls |-> 0, outcome |-> NoOutcome, returned |-> Undefined]
Runs == 1..MaxRuns
\* no concurrent run has started
RunsIdle == runs = [r \in Runs |-> IdleRun]

\* the variable is not set and no client has been constructed
ClientIdle ==
  /\ env = Undefined
  /\ clients = <<>>

Init ==
  /\ RunIdle
  /\ ProbeIdle
  /\ MediaIdle
  /\ RunsIdle
  /\ ClientIdle

ApiUrl(path) == <<BASE_API_URL, path>>
QueryUrl(path, uuid) == <<BASE_API_URL, path, uuid>>

clientV == <<apiKey, env, clients>>
fixedV == <<clientV, probe, verdict, cons, runs>>
argsV == <<timeoutSeconds, framesPerSecond, called, media, modelName>>
waitV == <<startTime, status, statusSeen, sleeps>>
soloV == <<pc, argsV, calls, responses, beginResp, taskState, now, waitV,
           outcome, returned, resultsBody>>
runV == <<clientV, soloV, runs>>

\* The program reads the clock only in _waitForPredictionTaskCompletion, from
\* startTime to the last loop head: the latency of a status request is the
\* one it can observe, the clock is not advanced for the other requests.
Latency(op) == IF op = "status" THEN NetDelays ELSE {0}

\* a request settles after some latency
Settle(op, how) ==
  /\ \E d \in Latency(op) : now' = now + d
  /\ responses' = Append(responses, Settled(op, how))

\* the run rejects with error e; nothing more is issued
ThrowRetry(e) ==
  /\ pc' = "begin"
  /\ calls' = Append(calls, calls[1])
  /\ outcome' = outcome
  /\ returned' = returned
  /\ resultsBody' = resultsBody
Throw(e) ==
  /\ pc' = "done"
  /\ outcome' = e
  /\ calls' = calls
  /\ returned' = returned
  /\ resultsBody' = resultsBody

\* ------------------------------------------- predictImage / predictVideo
\* _predictUnified up to its first await: _beginPredictionTask issues the
\* begin request
BeginFormFpsAlways(mimeType, fps) ==
  <<TextPart("mimetype", mimeType),
    TextPart("frames_per_second",
             String(JsonNumber(IF fps = Undefined THEN DefaultFramesPerSecond
                               ELSE fps[1])))>>
BeginForm(mimeType, fps) ==
  <<TextPart("mimetype", mimeType)>> \o
  (IF fps # Undefined
     THEN <<TextPart("frames_per_second", String(JsonNumber(fps[1])))>>
     ELSE <<>>)

predictUnified(m, name, fps, timeout) ==
  /\ pc = "idle"
  /\ media' = Some(m)
  /\ modelName' = Some(name)
  /\ timeoutSeconds' = timeout
  /\ framesPerSecond' = fps
  /\ calls' = Append(calls, Request("begin", ApiUrl("/prediction-task/begin"),
                                    "", Bearer(apiKey),
                                    BeginForm(m.mimeType, fps)))
  /\ pc' = "begin"
  /\ UNCHANGED <<fixedV, responses, beginResp, taskState, now, waitV,
                 outcome, returned, resultsBody>>

Called(method, fps) == [method |-> method, framesPerSecond |-> fps]

predictImage ==
  \E m \in RunImages, name \in ModelNames, timeout \in TimeoutInputs :
    /\ called' = Some(Called("predictImage", Undefined))
    /\ predictUnified(m, name, Undefined, timeout)

predictVideo ==
  \E m \in RunVideos, name \in ModelNames, timeout \in TimeoutInputs :
    \E fps \in {Undefined, Some(12)} :
      /\ called' = Some(Called("predictVideo", fps))
      /\ predictUnified(m, name,
                        IF fps = Undefined THEN Some(DefaultFramesPerSecond)
                        ELSE fps, timeout)

\* --------------------------------------------------- _beginPredictionTask
beginPredictionTask_catch ==
  /\ pc = "begin"
  /\ Settle("begin", "rejected")
  /\ Throw(PredictionTaskBeginError("Error beginning prediction task:"))
  /\ UNCHANGED <<fixedV, argsV, beginResp, taskState, waitV>>

beginPredictionTask_notOk ==
  /\ pc = "begin"
  /\ Settle("begin", "notOk")
  /\ Throw(PredictionTaskBeginError("Error beginning prediction task: status"))
  /\ UNCHANGED <<fixedV, argsV, beginResp, taskState, waitV>>

beginPredictionTask_jsonThrows ==
  /\ pc = "begin"
  /\ Settle("begin", "undecodable")
  /\ Throw(JsonSyntaxError)
  /\ UNCHANGED <<fixedV, argsV, beginResp, taskState, waitV>>

\* beginResp.signed_urls[0]
LastSignedUrl(signed_urls) == signed_urls[Len(signed_urls)]
FirstSignedUrl(signed_urls) == signed_urls[1]

\* the begin response decodes; _predictUnified goes on to
\* _uploadMediaToPredictionTask, which reads the target and issues the upload
UploadForm(signedUrl, m) ==
  [i \in 1..Len(signedUrl.fields) |->
     TextPart(signedUrl.fields[i][1], String(signedUrl.fields[i][2]))] \o
  <<FilePart("file", toBlob(m), "file")>>

beginPredictionTask_returns ==
  /\ pc = "begin"
  /\ \E body \in BeginBodies :
       /\ Settle("begin", "ok")
       /\ beginResp' = Some(body)
       /\ IF Len(body.signed_urls) = 0
            THEN Throw(UndefinedReadError)
            ELSE /\ calls' = Append(calls,
                       Request("upload",
                               <<FirstSignedUrl(body.signed_urls).url>>,
                               "", NoAuth,
                               UploadForm(FirstSignedUrl(body.signed_urls),
                                          media[1])))
                 /\ pc' = "upload"
                 /\ UNCHANGED <<outcome, returned, resultsBody>>
  /\ UNCHANGED <<fixedV, argsV, taskState, waitV>>

\* ------------------------------------------ _uploadMediaToPredictionTask
uploadMediaToPredictionTask_catch ==
  /\ pc = "upload"
  /\ Settle("upload", "rejected")
  /\ Throw(PredictionUploadError("Error uploading media to prediction task:"))
  /\ UNCHANGED <<fixedV, argsV, beginResp, taskState, waitV>>

uploadMediaToPredictionTask_notOk ==
  /\ pc = "upload"
  /\ Settle("upload", "notOk")
  /\ Throw(PredictionUploadError(
             "Error uploading media to prediction task: status"))
  /\ UNCHANGED <<fixedV, argsV, beginResp, taskState, waitV>>

PredictForm(name, predictionTaskUuid) ==
  <<TextPart("model_name", name),
    TextPart("prediction_task_uuid", predictionTaskUuid)>>

\* the upload succeeded; _predictUnified goes on to _initiatePredict
uploadMediaToPredictionTask_returns ==
  /\ pc = "upload"
  /\ Settle("upload", "ok")
  /\ calls' = Append(calls,
         Request("predict", ApiUrl("/predict"),
                 beginResp[1].prediction_task_uuid, Bearer(apiKey),
                 PredictForm(modelName[1],
                             beginResp[1].prediction_task_uuid)))
  /\ pc' = "predict"
  /\ UNCHANGED <<fixedV, argsV, beginResp, taskState, waitV, outcome,
                 returned, resultsBody>>

\* ------------------------------------- _waitForPredictionTaskCompletion
\* the while condition, elapsed being performance.now() - startTime
whileConditionInclusive(timeout, elapsed) ==
  timeout = Undefined \/ elapsed <= timeout[1] * MsPerSecond
whileConditionNeedsTimeout(timeout, elapsed) ==
  timeout # Undefined /\ elapsed < timeout[1] * MsPerSecond
whileCondition(timeout, elapsed) ==
  timeout = Undefined \/ elapsed < timeout[1] * MsPerSecond

\* one evaluation of the loop head: issue the next status check, or leave
\* the loop and throw
LoopHead(predictionTaskUuid) ==
  IF whileCondition(timeoutSeconds, now' - startTime')
    THEN /\ NumStatusCalls < MaxPolls
         /\ calls' = Append(calls,
               Request("status",
                       QueryUrl("/prediction-task/status?predictionTaskUuid=",
                                predictionTaskUuid),
                       predictionTaskUuid, Bearer(apiKey), NoForm))
         /\ pc' = "status"
         /\ UNCHANGED <<outcome, returned, resultsBody>>
    ELSE Throw(TimeoutError(predictionTaskUuid, timeoutSeconds))

\* ------------------------------------------------------- _initiatePredict
initiatePredict_catch ==
  /\ pc = "predict"
  /\ Settle("predict", "rejected")
  /\ Throw(PredictionTaskError("Error initiating prediction:"))
  /\ UNCHANGED <<fixedV, argsV, beginResp, taskState, waitV>>

initiatePredict_notOk ==
  /\ pc = "predict"
  /\ Settle("predict", "notOk")
  /\ Throw(PredictionTaskError("Error initiating prediction: status"))
  /\ UNCHANGED <<fixedV, argsV, beginResp, taskState, waitV>>

\* initiate succeeded; _predictUnified enters
\* _waitForPredictionTaskCompletion, which reads startTime and evaluates the
\* loop head for the first time
initiatePredict_returns ==
  /\ pc = "predict"
  /\ Settle("predict", "ok")
  /\ startTime' = now'
  /\ LoopHead(beginResp[1].prediction_task_uuid)
  /\ UNCHANGED <<fixedV, argsV, beginResp, taskState, status, statusSeen,
                 sleeps>>

\* -------------------------------------------------------------- getStatus
\* fetch rejects: getStatus has no catch, the rejection propagates as it is
getStatus_fetchRejects ==
  /\ pc = "status"
  /\ Settle("status", "rejected")
  /\ Throw(FetchRejection)
  /\ UNCHANGED <<fixedV, argsV, beginResp, taskState, waitV>>

getStatus_notOk ==
  /\ pc = "status"
  /\ Settle("status", "notOk")
  /\ Throw(PredictionTaskError("Error getting prediction task status: status"))
  /\ UNCHANGED <<fixedV, argsV, beginResp, taskState, waitV>>

getStatus_jsonThrows ==
  /\ pc = "status"
  /\ Settle("status", "undecodable")
  /\ Throw(JsonSyntaxError)
  /\ UNCHANGED <<fixedV, argsV, beginResp, taskState, waitV>>

\* the task UUID _predictUnified hands to _getResultsUnified
ResultsUuid(beginBody, statusBody) == statusBody.prediction_task_uuid

\* `if (isTaskComplete(status.status)) return status`: the loop body looks
\* at the state alone, never at the clock
returnsStatusBeforeDeadline(s) ==
  isTaskComplete(s) /\ whileCondition(timeoutSeconds, now' - startTime)
returnsStatus(s) == isTaskComplete(s)

\* the status decodes.  A complete status ends the loop and
\* _predictUnified either throws on a failed state or goes on to
\* _getResultsUnified; any other status starts the sleep
getStatus_returns ==
  /\ pc = "status"
  /\ \E body \in StatusBodies(beginResp[1].prediction_type, taskState) :
       /\ Settle("status", "ok")
       /\ statusSeen' = Append(statusSeen, body.status)
       /\ IF returnsStatus(body.status)
            THEN /\ status' = Some(body)
                 /\ IF isTaskFailed(body.status)
                      THEN Throw(TaskFailedError(body.status))
                      ELSE /\ calls' = Append(calls,
                                 Request("results",
                                   QueryUrl("/prediction-task/results?predictionTaskUuid=",
                                            ResultsUuid(beginResp[1], body)),
                                   ResultsUuid(beginResp[1], body),
                                   Bearer(apiKey), NoForm))
                           /\ pc' = "results"
                           /\ UNCHANGED <<outcome, returned, resultsBody>>
            ELSE /\ pc' = "sleep"
                 /\ UNCHANGED <<status, calls, outcome, returned, resultsBody>>
  /\ UNCHANGED <<fixedV, argsV, beginResp, taskState, startTime, sleeps>>

\* sleep(pollingIntervalMs) resolves and the loop head is evaluated again
sleep_resolves ==
  /\ pc = "sleep"
  /\ \E d \in SleepDelays(DefaultPollingIntervalMs) : now' = now + d
  /\ sleeps' = sleeps + 1
  /\ startTime' = startTime
  /\ LoopHead(beginResp[1].prediction_task_uuid)
  /\ UNCHANGED <<fixedV, argsV, responses, beginResp, taskState, status,
                 statusSeen>>

\* ----------------------------------------------------- _getResultsUnified
getResultsUnified_catch ==
  /\ pc = "results"
  /\ Settle("results", "rejected")
  /\ Throw(PredictionTaskResultsUnavailableError(
             "Error getting prediction task results: message"))
  /\ UNCHANGED <<fixedV, argsV, beginResp, taskState, waitV>>

getResultsUnified_notOk ==
  /\ pc = "results"
  /\ Settle("results", "notOk")
  /\ Throw(PredictionTaskResultsUnavailableError(
             "Error getting prediction task results: status"))
  /\ UNCHANGED <<fixedV, argsV, beginResp, taskState, waitV>>

getResultsUnified_jsonThrows ==
  /\ pc = "results"
  /\ Settle("results", "undecodable")
  /\ Throw(JsonSyntaxError)
  /\ UNCHANGED <<fixedV, argsV, beginResp, taskState, waitV>>

\* { ...payload, prediction_task_uuid: predictionTaskUuid }
augmentedPayloadWins(payload, predictionTaskUuid) ==
  [k \in DOMAIN payload \cup {"prediction_task_uuid"} |->
     IF k \in DOMAIN payload THEN payload[k] ELSE predictionTaskUuid]
augmented(payload, predictionTaskUuid) ==
  [k \in DOMAIN payload \cup {"prediction_task_uuid"} |->
     IF k = "prediction_task_uuid" THEN predictionTaskUuid ELSE payload[k]]

\* switch (predictionType): both cases return augmented; any other value
\* falls off the end of the function
shapeByType(predictionType, value) ==
  CASE predictionType = "image" -> value
    [] predictionType = "video" -> value
    [] OTHER -> Undefined

getResultsUnified_returns ==
  /\ pc = "results"
  /\ \E payload \in ResultPayloads :
       /\ Settle("results", "ok")
       /\ resultsBody' = Some(payload)
       /\ returned' = Some(shapeByType(beginResp[1].prediction_type,
                              augmented(payload, calls[Len(calls)].uuid)))
  /\ pc' = "done"
  /\ outcome' = Returned
  /\ UNCHANGED <<fixedV, argsV, calls, beginResp, taskState, waitV>>

\* ------------------------------------------------------ the remote service
\* the task moves on, on the server, until it reaches a final state
TaskProgress ==
  /\ pc \in {"predict", "status", "sleep"}
  /\ taskState \in InProgressStates
  /\ taskState' \in { s \in TaskStates : Rank(s) > Rank(taskState) }
  /\ UNCHANGED <<fixedV, pc, argsV, calls, responses, beginResp, now, waitV,
                 outcome, returned, resultsBody>>

\* ---------------------------------------------------------- specification
getStatus_settles ==
  \/ getStatus_fetchRejects
  \/ getStatus_notOk
  \/ getStatus_jsonThrows
  \/ getStatus_returns

Next ==
  \/ predictImage
  \/ predictVideo
  \/ beginPredictionTask_returns
  \/ beginPredictionTask_catch
  \/ beginPredictionTask_notOk
  \/ beginPredictionTask_jsonThrows
  \/ uploadMediaToPredictionTask_returns
  \/ uploadMediaToPredictionTask_catch
  \/ uploadMediaToPredictionTask_notOk
  \/ initiatePredict_returns
  \/ initiatePredict_catch
  \/ initiatePredict_notOk
  \/ getStatus_returns
  \/ getStatus_fetchRejects
  \/ getStatus_notOk
  \/ getStatus_jsonThrows
  \/ sleep_resolves
  \/ getResultsUnified_returns
  \/ getResultsUnified_catch
  \/ getResultsUnified_notOk
  \/ getResultsUnified_jsonThrows
  \/ TaskProgress

Spec == Init /\ [][Next]_vars

\* the timer fires and every status request settles
FairSpec ==
  Spec /\ WF_vars(sleep_resolves) /\ WF_vars(getStatus_settles)

\* ------------------------------------------------- the status predicates
\* state strings: the known literals, near misses of them, and each with a
\* suffix
RECURSIVE SeqsUpTo(_, _)
SeqsUpTo(chars, n) ==
  IF n = 0 THEN {<<>>}
  ELSE LET shorter == SeqsUpTo(chars, n - 1)
       IN shorter \cup { Append(q, c) : q \in shorter, c \in chars }
StatePrefixes ==
  { <<>>, <<"p","r","e","d","i","c","t","e","d">>,
    <<"f","a","i","l","e","d">>, <<"p","e","n","d","i","n","g">>,
    <<"f","a","i","l","e","d","_","t","i","m","e","o","u","t">>,
    <<"f","a","i","l">>, <<"F","a","i","l","e","d">>,
    <<" ","f","a","i","l","e","d">>, <<"p","r","e","d","i","c","t">> }
StateStrings ==
  { p \o q : p \in StatePrefixes, q \in SeqsUpTo({"_", "d"}, MaxSuffixLen) }

\* the three predicates applied to one state string
classify ==
  /\ probe # Undefined
  /\ verdict = Undefined
  /\ verdict' = Some([successful |-> isTaskSuccessful(probe[1]),
                      failed |-> isTaskFailed(probe[1]),
                      complete |-> isTaskComplete(probe[1])])
  /\ UNCHANGED <<runV, probe, cons>>

StatusInit ==
  /\ RunIdle
  /\ probe \in { Some(q) : q \in StateStrings }
  /\ verdict = Undefined
  /\ MediaIdle
  /\ RunsIdle
  /\ ClientIdle

StatusSpec == StatusInit /\ [][classify]_vars

\* ------------------------------------------------------------------ media
\* String.prototype.trim
WhiteSpace == {" ", "\t", "\n"}
RECURSIVE trimStart(_)
trimStart(s) ==
  IF s # <<>> /\ Head(s) \in WhiteSpace THEN trimStart(Tail(s)) ELSE s
RECURSIVE trimEnd(_)
trimEnd(s) ==
  IF s # <<>> /\ s[Len(s)] \in WhiteSpace
    THEN trimEnd(SubSeq(s, 1, Len(s) - 1))
    ELSE s
trim(s) == trimEnd(trimStart(s))

\* a ?? b, and a?.trim()
Nullish(a, b) == IF a # Undefined THEN a ELSE b
OptTrim(a) == IF a = Undefined THEN Undefined ELSE Some(trim(a[1]))

\* s.split(sep)[0]
RECURSIVE splitFirst(_, _)
splitFirst(s, sep) ==
  IF s = <<>> \/ Head(s) = sep THEN <<>>
  ELSE <<Head(s)>> \o splitFirst(Tail(s), sep)

\* String.prototype.toLowerCase, on ASCII letters
UpperCase == <<"A","B","C","D","E","F","G","H","I","J","K","L","M",
               "N","O","P","Q","R","S","T","U","V","W","X","Y","Z">>
LowerCase == <<"a","b","c","d","e","f","g","h","i","j","k","l","m",
               "n","o","p","q","r","s","t","u","v","w","x","y","z">>
toLowerCase(s) ==
  [i \in 1..Len(s) |->
     IF \E k \in 1..26 : UpperCase[k] = s[i]
       THEN LowerCase[CHOOSE k \in 1..26 : UpperCase[k] = s[i]]
       ELSE s[i]]

\* path.basename and path.extname
lastIndexOf(s, c) ==
  IF \E i \in 1..Len(s) : s[i] = c
    THEN CHOOSE i \in 1..Len(s) :
           s[i] = c /\ \A j \in (i + 1)..Len(s) : s[j] # c
    ELSE 0
basename(path) == SubSeq(path, lastIndexOf(path, "/") + 1, Len(path))
extname(path) ==
  LET base == basename(path)
      dot == lastIndexOf(base, ".")
  IN IF dot <= 1 THEN <<>> ELSE SubSeq(base, dot, Len(base))

guessMimeByExt(ext) ==
  CASE ext = <<".","j","p","g">> -> Some(IMAGE_SLASH \o <<"j","p","e","g">>)
    [] ext = <<".","j","p","e","g">> ->
         Some(IMAGE_SLASH \o <<"j","p","e","g">>)
    [] ext = <<".","p","n","g">> -> Some(IMAGE_PNG)
    [] ext = <<".","w","e","b","p">> -> Some(IMAGE_SLASH \o <<"w","e","b","p">>)
    [] ext = <<".","g","i","f">> -> Some(IMAGE_SLASH \o <<"g","i","f">>)
    [] ext = <<".","b","m","p">> -> Some(IMAGE_SLASH \o <<"b","m","p">>)
    [] ext = <<".","s","v","g">> ->
         Some(IMAGE_SLASH \o <<"s","v","g","+","x","m","l">>)
    [] ext = <<".","m","p","4">> -> Some(VIDEO_MP4)
    [] ext = <<".","m","o","v">> ->
         Some(VIDEO_SLASH \o <<"q","u","i","c","k","t","i","m","e">>)
    [] ext = <<".","w","e","b","m">> -> Some(VIDEO_SLASH \o <<"w","e","b","m">>)
    [] ext = <<".","m","k","v">> ->
         Some(VIDEO_SLASH \o <<"x","-","m","a","t","r","o","s","k","a">>)
    [] ext = <<".","a","v","i">> ->
         Some(VIDEO_SLASH \o <<"x","-","m","s","v","i","d","e","o">>)
    [] OTHER -> Undefined

\* atob followed by the charCodeAt loop (and Buffer.from(s, "base64")), on
\* well-formed input: each group of four characters gives up to three bytes
Base64Alphabet ==
  UpperCase \o LowerCase \o
  <<"0","1","2","3","4","5","6","7","8","9","+","/">>
Base64Value(c) ==
  IF c = "=" THEN 0
  ELSE (CHOOSE k \in 1..64 : Base64Alphabet[k] = c) - 1
RECURSIVE atob(_)
atob(s) ==
  IF Len(s) < 4 THEN <<>>
  ELSE LET v == Base64Value(s[1]) * 262144 + Base64Value(s[2]) * 4096
                + Base64Value(s[3]) * 64 + Base64Value(s[4])
           pad == Cardinality({ i \in 3..4 : s[i] = "=" })
           three == <<v \div 65536, (v \div 256) % 256, v % 256>>
       IN SubSeq(three, 1, 3 - pad) \o atob(SubSeq(s, 5, Len(s)))

\* a File is a Blob with a name
File(bytes, type, name) == [bytes |-> bytes, type |-> type, name |-> name]

isImageOrVideo(mime) ==
  /\ mime # Undefined
  /\ startsWith(mime[1], IMAGE_SLASH) \/ startsWith(mime[1], VIDEO_SLASH)
isImageMime(mime) == startsWith(mime, IMAGE_SLASH)
isVideoMimeAsImage(mime) == startsWith(mime, IMAGE_SLASH)
isVideoMime(mime) == startsWith(mime, VIDEO_SLASH)

expectedFamilyText(ctor) ==
  CASE ctor = "Image" -> "image/*"
    [] ctor = "Video" -> "video/*"
    [] OTHER -> "image/* or video/*"

\* the message names the construction, the value it got and the family
IncorrectMediaTypeError(template, got, expected) ==
  Error("IncorrectMediaTypeError",
        [template |-> template, got |-> got, expected |-> expected])
\* new Error(message)
GenericError(template) ==
  Error("Error", [template |-> template, got |-> <<>>, expected |-> ""])

\* what a construction gives: an error thrown or an object, and which of
\* the two family checks it passed on the way
Threw(e) ==
  [thrown |-> Some(e), value |-> Undefined, generic |-> FALSE,
   variant |-> FALSE]
Built(object) ==
  [thrown |-> Undefined, value |-> Some(object), generic |-> FALSE,
   variant |-> TRUE]
AfterGeneric(r) == [r EXCEPT !.generic = TRUE]

\* new Image(blob, mimeType, name) and new Video(blob, mimeType, name)
ImageUnchecked(blob, mimeType, name) ==
  Built(MediaObject("Image", blob, mimeType, name))
Image(blob, mimeType, name) ==
  IF ~isImageMime(mimeType)
    THEN Threw(IncorrectMediaTypeError(<<"Image requires image/* MIME; got">>,
                                       mimeType, "image/*"))
    ELSE Built(MediaObject("Image", blob, mimeType, name))
Video(blob, mimeType, name) ==
  IF ~isVideoMime(mimeType)
    THEN Threw(IncorrectMediaTypeError(<<"Video requires video/* MIME; got">>,
                                       mimeType, "video/*"))
    ELSE Built(MediaObject("Video", blob, mimeType, name))

\* new (ctor as any)(blob, mime, name)
constructForThis(ctor, blob, mime, name) ==
  CASE ctor = "Image" -> Image(blob, mime, name)
    [] ctor = "Video" -> Video(blob, mime, name)

\* the error enforceFamilyOrThrow throws, if any
enforceFamilyOrThrow(ctor, mime, ctx) ==
  IF ctor = "Image" /\ ~isImageMime(mime)
    THEN Some(IncorrectMediaTypeError(<<"Invalid MIME type for Image.", ctx>>,
                                      mime, "image/*"))
  ELSE IF ctor = "Video" /\ ~isVideoMime(mime)
    THEN Some(IncorrectMediaTypeError(<<"Invalid MIME type for Video.", ctx>>,
                                      mime, "video/*"))
  ELSE Undefined

\* the part every factory ends with: the generic check, then the class's
\* own constructor
enforceThenConstruct(ctor, blob, mime, name, ctx) ==
  LET e == enforceFamilyOrThrow(ctor, mime, ctx)
  IN IF e # Undefined THEN Threw(e[1])
     ELSE AfterGeneric(constructForThis(ctor, blob, mime, name))

MISSING == <<"(","m","i","s","s","i","n","g",")">>
UNKNOWN == <<"u","n","k","n","o","w","n">>
\* a || b on strings
OrElse(a, b) == IF a # <<>> THEN a ELSE b

fromBlobTypeFirst(ctor, blob, name, mimeTypeOverride) ==
  LET candidate ==
        trim(OrElse(blob.type, Nullish(mimeTypeOverride, Some(<<>>))[1]))
  IN IF ~isImageOrVideo(Some(candidate))
       THEN Threw(IncorrectMediaTypeError(
                    <<"Invalid MIME type for ", ctor, ".fromBlob">>,
                    OrElse(candidate, MISSING), expectedFamilyText(ctor)))
       ELSE enforceThenConstruct(ctor, blob, candidate, name, "fromBlob")
fromBlob(ctor, blob, name, mimeTypeOverride) ==
  LET candidate ==
        trim(Nullish(mimeTypeOverride,
                     Nullish(Some(blob.type), Some(<<>>)))[1])
  IN IF ~isImageOrVideo(Some(candidate))
       THEN Threw(IncorrectMediaTypeError(
                    <<"Invalid MIME type for ", ctor, ".fromBlob">>,
                    OrElse(candidate, MISSING), expectedFamilyText(ctor)))
       ELSE enforceThenConstruct(ctor, blob, candidate, name, "fromBlob")

fromFile(ctor, file, name) ==
  fromBlob(ctor, file, Nullish(name, Some(file.name)), Undefined)

fromArrayBufferEmptyBlob(ctor, buf, mimeType, name) ==
  IF ~isImageOrVideo(Some(mimeType))
    THEN Threw(IncorrectMediaTypeError(
                 <<"Invalid MIME type for ", ctor, ".fromArrayBuffer">>,
                 mimeType, expectedFamilyText(ctor)))
    ELSE enforceThenConstruct(ctor, Blob(<<>>, mimeType), mimeType, name,
                              "fromArrayBuffer")
fromArrayBuffer(ctor, buf, mimeType, name) ==
  IF ~isImageOrVideo(Some(mimeType))
    THEN Threw(IncorrectMediaTypeError(
                 <<"Invalid MIME type for ", ctor, ".fromArrayBuffer">>,
                 mimeType, expectedFamilyText(ctor)))
    ELSE enforceThenConstruct(ctor, Blob(buf, mimeType), mimeType, name,
                              "fromArrayBuffer")

fromUint8Array(ctor, u8, mimeType, name) ==
  IF ~isImageOrVideo(Some(mimeType))
    THEN Threw(IncorrectMediaTypeError(
                 <<"Invalid MIME type for ", ctor, ".fromUint8Array">>,
                 mimeType, expectedFamilyText(ctor)))
    ELSE enforceThenConstruct(ctor, Blob(u8, mimeType), mimeType, name,
                              "fromUint8Array")

fromBase64(ctor, base64, mimeType, name) ==
  IF ~isImageOrVideo(Some(mimeType))
    THEN Threw(IncorrectMediaTypeError(
                 <<"Invalid MIME type for ", ctor, ".fromBase64">>,
                 mimeType, expectedFamilyText(ctor)))
  ELSE LET e == enforceFamilyOrThrow(ctor, mimeType, "fromBase64")
       IN IF e # Undefined THEN Threw(e[1])
          ELSE fromUint8Array(ctor, atob(base64), mimeType, name)

\* fromUrl once the response is there: resp.ok, the Content-Type header (or
\* none) and the blob of the body
FetchFailedErrorTyped ==
  Error("IncorrectMediaTypeError",
        [template |-> <<"Failed to fetch media from URL:">>, got |-> <<>>,
         expected |-> ""])
FetchFailedError == GenericError(<<"Failed to fetch media from URL:">>)
headerTypeOf(header) ==
  IF header = Undefined THEN Undefined
  ELSE Some(trim(splitFirst(header[1], ";")))
resolvedHeaderFirst(mimeTypeOverride, headerType, blobType) ==
  OptTrim(Nullish(headerType, Nullish(mimeTypeOverride, Some(blobType))))
resolved(mimeTypeOverride, headerType, blobType) ==
  OptTrim(Nullish(mimeTypeOverride, Nullish(headerType, Some(blobType))))
fromUrl_afterFetch(ctor, url, name, mimeTypeOverride, resp) ==
  IF ~resp.ok THEN Threw(FetchFailedError)
  ELSE LET headerType == headerTypeOf(resp.header)
           mime == resolved(mimeTypeOverride, headerType, resp.blob.type)
           shown == OrElse(Nullish(headerType, Some(<<>>))[1],
                           OrElse(resp.blob.type, UNKNOWN))
       IN IF ~isImageOrVideo(mime)
            THEN Threw(IncorrectMediaTypeError(
                         <<"Remote resource is not (Content-Type)">>, shown,
                         expectedFamilyText(ctor)))
            ELSE enforceThenConstruct(ctor, resp.blob, mime[1],
                                      Nullish(name, Some(url)), "fromUrl")

\* fromFilePath once the file is read
fromFilePath_afterReadGuessFirst(ctor, filePath, name, mimeType, buf) ==
  LET guessed ==
        OptTrim(Nullish(guessMimeByExt(toLowerCase(extname(filePath))),
                        mimeType))
  IN IF ~isImageOrVideo(guessed)
       THEN Threw(IncorrectMediaTypeError(
                    <<"Cannot infer a valid MIME type for">>, filePath,
                    expectedFamilyText(ctor)))
     ELSE LET e == enforceFamilyOrThrow(ctor, guessed[1], "fromFilePath")
          IN IF e # Undefined THEN Threw(e[1])
             ELSE fromUint8Array(ctor, buf, guessed[1],
                                 Nullish(name, Some(basename(filePath))))
fromFilePath_afterRead(ctor, filePath, name, mimeType, buf) ==
  LET guessed ==
        OptTrim(Nullish(mimeType,
                        guessMimeByExt(toLowerCase(extname(filePath)))))
  IN IF ~isImageOrVideo(guessed)
       THEN Threw(IncorrectMediaTypeError(
                    <<"Cannot infer a valid MIME type for">>, filePath,
                    expectedFamilyText(ctor)))
     ELSE LET e == enforceFamilyOrThrow(ctor, guessed[1], "fromFilePath")
          IN IF e # Undefined THEN Threw(e[1])
             ELSE fromUint8Array(ctor, buf, guessed[1],
                                 Nullish(name, Some(basename(filePath))))

\* ------------------------------------------------- media: the constructions
\* what the caller passes
Variants == {"Image", "Video"}
MimeBases ==
  { IMAGE_PNG, VIDEO_MP4, <<"t","e","x","t","/","p","l","a","i","n">>, <<>> }
MimeInputs ==
  MimeBases \cup
  { <<" ">> \o IMAGE_PNG, IMAGE_PNG \o <<" ">>, VIDEO_MP4 \o <<" ">> }
OptMimeInputs == {Undefined} \cup { Some(m) : m \in MimeInputs }
BlobTypes == { <<>>, IMAGE_PNG, VIDEO_MP4 }
MediaBytes == { <<137, 80>>, <<255, 216, 255>> }
Base64Inputs ==
  { <<"i","V","A","=">>, <<"/","9","j","/">>, <<"A","A","=","=">> }
FileNames == { <<"a",".","p","n","g">>, <<"b",".","m","p","4">> }
NameInputs == { Undefined, Some(<<"n">>) }
FilePaths ==
  { <<"a",".","j","p","g">>,
    <<"a",".","j","p","e","g">>,
    <<"a",".","p","n","g">>,
    <<"a",".","w","e","b","p">>,
    <<"a",".","g","i","f">>,
    <<"a",".","b","m","p">>,
    <<"a",".","s","v","g">>,
    <<"v","/","b",".","M","P","4">>,
    <<"b",".","m","o","v">>,
    <<"b",".","w","e","b","m">>,
    <<"b",".","m","k","v">>,
    <<"b",".","a","v","i">>,
    <<"c",".","t","x","t">>,
    <<"d">>,
    <<".","p","n","g">>,
    <<"e",".","p","/","f">> }
Urls == { <<"h","t","t","p","s",":","/","/","m">> }
\* what the remote host answers: Content-Type or none, and the body's blob
ContentTypes ==
  { Undefined, Some(<<>>), Some(IMAGE_PNG \o <<";"," ","q">>),
    Some(VIDEO_MP4 \o <<" ",";","q">>) }
Response(ok, header, blob) == [ok |-> ok, header |-> header, blob |-> blob]
OkResponses ==
  { Response(TRUE, h, Blob(b, t)) :
      h \in ContentTypes, b \in MediaBytes, t \in BlobTypes }
NotOkResponses == { Response(FALSE, Undefined, Blob(<<>>, <<>>)) }
ReadFileError == GenericError(<<"ENOENT: no such file or directory">>)
FetchTypeError == GenericError(<<"fetch failed">>)

\* one construction: the path and class called, the MIME string passed
\* explicitly (if any), and how far it got
Call(path, ctor, mime) ==
  [path |-> path, ctor |-> ctor, mime |-> mime, blobType |-> Undefined,
   name |-> Undefined, filePath |-> Undefined, fileName |-> Undefined,
   readOk |-> Undefined, bytes |-> Undefined, base64 |-> Undefined,
   payloads |-> <<>>, forms |-> Undefined, stage |-> "done",
   requests |-> 0, resp |-> Undefined, result |-> Undefined]

Ready == IF cons = Undefined THEN TRUE ELSE cons[1].stage = "done"

\* the construction c ends with r: an error thrown or the object built
Finish(c, r) ==
  cons' = Some([c EXCEPT !.stage = "done", !.result = Some(r)])

callFromBlob ==
  /\ Ready
  /\ \E ctor \in Variants, b \in MediaBytes, t \in BlobTypes,
        mimeTypeOverride \in OptMimeInputs :
       Finish([Call("fromBlob", ctor, mimeTypeOverride)
                 EXCEPT !.blobType = Some(t)],
              fromBlob(ctor, Blob(b, t), Undefined, mimeTypeOverride))
  /\ UNCHANGED <<runV, probe, verdict>>

callFromFile ==
  /\ Ready
  /\ \E ctor \in Variants, b \in MediaBytes, t \in BlobTypes,
        fileName \in FileNames, name \in NameInputs :
       Finish([Call("fromFile", ctor, Undefined)
                 EXCEPT !.blobType = Some(t), !.name = name,
                        !.fileName = Some(fileName)],
              fromFile(ctor, File(b, t, fileName), name))
  /\ UNCHANGED <<runV, probe, verdict>>

callFromArrayBuffer ==
  /\ Ready
  /\ \E ctor \in Variants, buf \in MediaBytes, mimeType \in MimeInputs :
       Finish([Call("fromArrayBuffer", ctor, Some(mimeType))
                 EXCEPT !.bytes = Some(buf)],
              fromArrayBuffer(ctor, buf, mimeType, Undefined))
  /\ UNCHANGED <<runV, probe, verdict>>

callFromUint8Array ==
  /\ Ready
  /\ \E ctor \in Variants, u8 \in MediaBytes, mimeType \in MimeInputs :
       Finish([Call("fromUint8Array", ctor, Some(mimeType))
                 EXCEPT !.bytes = Some(u8)],
              fromUint8Array(ctor, u8, mimeType, Undefined))
  /\ UNCHANGED <<runV, probe, verdict>>

callFromBase64 ==
  /\ Ready
  /\ \E ctor \in Variants, base64 \in Base64Inputs, mimeType \in MimeInputs :
       Finish([Call("fromBase64", ctor, Some(mimeType))
                 EXCEPT !.base64 = Some(base64)],
              fromBase64(ctor, base64, mimeType, Undefined))
  /\ UNCHANGED <<runV, probe, verdict>>

\* new Image(...) or new Video(...), called directly
callNew ==
  /\ Ready
  /\ \E ctor \in Variants, b \in MediaBytes, mimeType \in MimeInputs :
       Finish(Call("new", ctor, Some(mimeType)),
              constructForThis(ctor, Blob(b, mimeType), mimeType, Undefined))
  /\ UNCHANGED <<runV, probe, verdict>>

\* fromUrl up to its first await: the fetch is issued
fromUrl ==
  /\ Ready
  /\ \E ctor \in Variants, url \in Urls, mimeTypeOverride \in OptMimeInputs :
       cons' = Some([Call("fromUrl", ctor, mimeTypeOverride)
                       EXCEPT !.stage = "fetching", !.requests = 1,
                              !.filePath = Some(url)])
  /\ UNCHANGED <<runV, probe, verdict>>

fromUrl_fetchRejects ==
  /\ cons # Undefined /\ cons[1].stage = "fetching"
  /\ Finish(cons[1], Threw(FetchTypeError))
  /\ UNCHANGED <<runV, probe, verdict>>

fromUrl_notOk ==
  /\ cons # Undefined /\ cons[1].stage = "fetching"
  /\ \E resp \in NotOkResponses :
       Finish([cons[1] EXCEPT !.resp = Some(resp)],
              fromUrl_afterFetch(cons[1].ctor, cons[1].filePath[1],
                                 Undefined, cons[1].mime, resp))
  /\ UNCHANGED <<runV, probe, verdict>>

fromUrl_returns ==
  /\ cons # Undefined /\ cons[1].stage = "fetching"
  /\ \E resp \in OkResponses :
       Finish([cons[1] EXCEPT !.resp = Some(resp),
                              !.blobType = Some(resp.blob.type)],
              fromUrl_afterFetch(cons[1].ctor, cons[1].filePath[1],
                                 Undefined, cons[1].mime, resp))
  /\ UNCHANGED <<runV, probe, verdict>>

\* fromFilePath up to readFile
fromFilePath ==
  /\ Ready
  /\ \E ctor \in Variants, filePath \in FilePaths,
        mimeType \in OptMimeInputs :
       cons' = Some([Call("fromFilePath", ctor, mimeType)
                       EXCEPT !.stage = "reading",
                              !.filePath = Some(filePath)])
  /\ UNCHANGED <<runV, probe, verdict>>

fromFilePath_readRejects ==
  /\ cons # Undefined /\ cons[1].stage = "reading"
  /\ Finish([cons[1] EXCEPT !.readOk = Some(FALSE)], Threw(ReadFileError))
  /\ UNCHANGED <<runV, probe, verdict>>

fromFilePath_returns ==
  /\ cons # Undefined /\ cons[1].stage = "reading"
  /\ \E buf \in MediaBytes :
       Finish([cons[1] EXCEPT !.readOk = Some(TRUE)],
              fromFilePath_afterRead(cons[1].ctor, cons[1].filePath[1],
                                     Undefined, cons[1].mime, buf))
  /\ UNCHANGED <<runV, probe, verdict>>

\* media.toBlob() on the object the last construction built
callToBlob ==
  /\ cons # Undefined /\ cons[1].stage = "done"
  /\ cons[1].result[1].value # Undefined
  /\ Len(cons[1].payloads) < MaxToBlobCalls
  /\ cons' = Some([cons[1] EXCEPT
                     !.payloads = Append(@, toBlob(cons[1].result[1].value[1]))])
  /\ UNCHANGED <<runV, probe, verdict>>

\* what the orchestrator does with the media it is given: it reads
\* media.mimeType for the begin form and media.toBlob() for the upload form
orchestratorReads ==
  /\ cons # Undefined /\ cons[1].stage = "done"
  /\ cons[1].result[1].value # Undefined
  /\ cons[1].forms = Undefined
  /\ LET m == cons[1].result[1].value[1]
     IN cons' = Some([cons[1] EXCEPT
                        !.forms = Some([begin |-> BeginForm(m.mimeType, Undefined),
                                        upload |-> UploadForm(SignedTarget(1), m)])])
  /\ UNCHANGED <<runV, probe, verdict>>

MediaNext ==
  \/ callFromBlob
  \/ callFromFile
  \/ callFromArrayBuffer
  \/ callFromUint8Array
  \/ callFromBase64
  \/ callNew
  \/ fromUrl
  \/ fromUrl_returns
  \/ fromUrl_notOk
  \/ fromUrl_fetchRejects
  \/ fromFilePath
  \/ fromFilePath_returns
  \/ fromFilePath_readRejects
  \/ callToBlob
  \/ orchestratorReads

MediaSpec == Init /\ [][MediaNext]_vars

\* ------------------------------------------------- constructing a client
\* what the variable can hold and what the caller can pass as apiKey
EnvValues == { Undefined, Some(""), Some("envkey") }
ApiKeyOptions == { Undefined, Some(""), Some("argkey") }

readEnvVar(e) == e
ApiKeyRequiredError == GenericError(<<"API key is required">>)

\* new Dragoneye({ apiKey }): the default of the destructured option applies
\* when it is undefined; the instance is the value of the call only when the
\* constructor does not throw
DragoneyeUnchecked(option, e) ==
  LET key == Nullish(option, readEnvVar(e))
  IN [thrown |-> Undefined, client |-> Some([apiKey |-> key])]
Dragoneye(option, e) ==
  LET key == Nullish(option, readEnvVar(e))
  IN IF key = Undefined
       THEN [thrown |-> Some(ApiKeyRequiredError), client |-> Undefined]
       ELSE [thrown |-> Undefined, client |-> Some([apiKey |-> key])]

\* the process sets or unsets the variable
setEnv ==
  /\ \E e \in EnvValues : env' = e
  /\ UNCHANGED <<apiKey, clients, soloV, runs, probe, verdict, cons>>

newDragoneye ==
  /\ Len(clients) < MaxClients
  /\ \E option \in ApiKeyOptions :
       clients' = Append(clients,
                         [option |-> option, env |-> env,
                          result |-> Dragoneye(option, env),
                          requests |-> <<>>])
  /\ UNCHANGED <<apiKey, env, soloV, runs, probe, verdict, cons>>

\* client.classification.getStatus(uuid) up to its await, on a client that
\* was constructed: the request carries the client's key
client_getStatus ==
  /\ \E i \in 1..Len(clients), uuid \in UUIDs :
       /\ clients[i].result.client # Undefined
       /\ Len(clients[i].requests) < MaxClientRequests
       /\ clients' =
            [clients EXCEPT ![i].requests =
               Append(@, Request("status",
                                 QueryUrl("/prediction-task/status?predictionTaskUuid=",
                                          uuid),
                                 uuid,
                                 Bearer(clients[i].result.client[1].apiKey),
                                 NoForm))]
  /\ UNCHANGED <<apiKey, env, soloV, runs, probe, verdict, cons>>

ClientNext ==
  \/ setEnv
  \/ newDragoneye
  \/ client_getStatus

ClientSpec == Init /\ [][ClientNext]_vars

\* ------------------------------------------ concurrent runs on one client
\* the begin response of run r: the service gives each task its own UUID
\* and its own target
RunUuid(r) == IF r % 2 = 1 THEN "abc" ELSE "xyz"
RunBeginBodies(r, type) ==
  [prediction_task_uuid : {RunUuid(r)}, prediction_type : {type},
   signed_urls : {<<SignedTarget(r)>>}]
RunStatusBodies(type) ==
  [prediction_task_uuid : UUIDs, prediction_type : {type},
   status : {PENDING, PREDICTED_STATUS, FAILED_INVALID_INPUT}]
TypeOf(m) == IF m.class = "Image" THEN "image" ELSE "video"

\* run r appends a request
Issue(r, request, nextPc) ==
  [runs[r] EXCEPT !.calls = Append(@, request), !.pc = nextPc]
\* only the locals of run r change
Step(r, locals) ==
  /\ runs' = [runs EXCEPT ![r] = locals]
  /\ UNCHANGED <<clientV, soloV, probe, verdict, cons>>

\* predictImage or predictVideo is called while other runs are under way
run_predict(r) ==
  /\ runs[r].pc = "idle"
  /\ \E m \in RunImages \cup RunVideos, name \in ModelNames :
       LET fps == IF m.class = "Video" THEN Some(DefaultFramesPerSecond)
                                       ELSE Undefined
       IN Step(r, [Issue(r, Request("begin",
                                    ApiUrl("/prediction-task/begin"), "",
                                    Bearer(apiKey),
                                    BeginForm(m.mimeType, fps)), "begin")
                     EXCEPT !.media = Some(m), !.modelName = Some(name),
                            !.framesPerSecond = fps])

run_beginReturns(r) ==
  /\ runs[r].pc = "begin"
  /\ \E body \in RunBeginBodies(r, TypeOf(runs[r].media[1])) :
       Step(r, [Issue(r, Request("upload",
                                 <<FirstSignedUrl(body.signed_urls).url>>,
                                 "", NoAuth,
                                 UploadForm(FirstSignedUrl(body.signed_urls),
                                            runs[r].media[1])), "upload")
                  EXCEPT !.beginResp = Some(body)])

run_uploadReturns(r) ==
  /\ runs[r].pc = "upload"
  /\ Step(r, Issue(r, Request("predict", ApiUrl("/predict"),
                              runs[r].beginResp[1].prediction_task_uuid,
                              Bearer(apiKey),
                              PredictForm(runs[r].modelName[1],
                                runs[r].beginResp[1].prediction_task_uuid)),
                   "predict"))

\* the status request of run r, for the UUID of its begin response
StatusRequest(r) ==
  Request("status",
          QueryUrl("/prediction-task/status?predictionTaskUuid=",
                   runs[r].beginResp[1].prediction_task_uuid),
          runs[r].beginResp[1].prediction_task_uuid, Bearer(apiKey), NoForm)

run_predictReturns(r) ==
  /\ runs[r].pc = "predict"
  /\ Step(r, Issue(r, StatusRequest(r), "status"))

run_statusReturns(r) ==
  /\ runs[r].pc = "status"
  /\ \E body \in RunStatusBodies(runs[r].beginResp[1].prediction_type) :
       IF isTaskComplete(body.status)
         THEN IF isTaskFailed(body.status)
                THEN Step(r, [runs[r] EXCEPT
                                !.pc = "done",
                                !.outcome = TaskFailedError(body.status)])
                ELSE Step(r, Issue(r,
                       Request("results",
                         QueryUrl("/prediction-task/results?predictionTaskUuid=",
                                  ResultsUuid(runs[r].beginResp[1], body)),
                         ResultsUuid(runs[r].beginResp[1], body),
                         Bearer(apiKey), NoForm), "results"))
         ELSE Step(r, [runs[r] EXCEPT !.pc = "sleep"])

run_sleepResolves(r) ==
  /\ runs[r].pc = "sleep"
  /\ runs[r].polls < MaxRunPolls
  /\ Step(r, [Issue(r, StatusRequest(r), "status")
                EXCEPT !.polls = @ + 1])

run_resultsReturns(r) ==
  /\ runs[r].pc = "results"
  /\ \E payload \in ResultPayloads :
       Step(r, [runs[r] EXCEPT
                  !.pc = "done",
                  !.outcome = Returned,
                  !.returned =
                    Some(shapeByType(runs[r].beginResp[1].prediction_type,
                           augmented(payload, Last(runs[r].calls).uuid)))])

\* the request run r is waiting for is answered with a failure status
StageError(op) ==
  CASE op = "begin" ->
         PredictionTaskBeginError("Error beginning prediction task: status")
    [] op = "upload" ->
         PredictionUploadError(
           "Error uploading media to prediction task: status")
    [] op = "predict" ->
         PredictionTaskError("Error initiating prediction: status")
    [] op = "status" ->
         PredictionTaskError("Error getting prediction task status: status")
    [] op = "results" ->
         PredictionTaskResultsUnavailableError(
           "Error getting prediction task results: status")
run_notOk(r) ==
  /\ runs[r].pc \in {"begin", "upload", "predict", "status", "results"}
  /\ Step(r, [runs[r] EXCEPT !.pc = "done",
                             !.outcome = StageError(runs[r].pc)])

ConcNext ==
  \E r \in Runs :
    \/ run_predict(r)
    \/ run_beginReturns(r)
    \/ run_uploadReturns(r)
    \/ run_predictReturns(r)
    \/ run_statusReturns(r)
    \/ run_sleepResolves(r)
    \/ run_resultsReturns(r)
    \/ run_notOk(r)

ConcSpec == Init /\ [][ConcNext]_vars

\* ------------------------------------------------------------- vocabulary
NumCalls(op) == Cardinality(CallsOf(op))
HasFailedPrefix(state) ==
  Len(state) >= 6 /\ SubSeq(state, 1, 6) = <<"f","a","i","l","e","d">>
IsPredicted(state) == state = <<"p","r","e","d","i","c","t","e","d">>
IsFinal(state) == IsPredicted(state) \/ HasFailedPrefix(state)
IsTimeoutError(o) ==
  o.kind = "error" /\ o.name = "PredictionTaskError"
  /\ o.text = "did not complete within"
\* _waitForPredictionTaskCompletion has been entered
WaitEntered == Len(responses) >= 3 /\ responses[3].how = "ok"
\* this step evaluates the loop head
LoopHeadStep ==
  \/ pc = "sleep" /\ pc' # "sleep"
  \/ pc = "predict" /\ pc' # "predict" /\ Last(responses').how = "ok"

\* ------------------------------------------------------------------- C1
\* C1: the requests are issued one at a time, in the order begin, upload,
\* initiate, status (any number), results; each one only after the one before
\* it succeeded, and results only after a status check returned exactly
\* "predicted".
FollowsInOrder ==
  { <<"begin", "upload">>, <<"upload", "predict">>, <<"predict", "status">>,
    <<"status", "status">>, <<"status", "results">> }
C1_SequentialCalls ==
  /\ Len(calls) - Len(responses) \in {0, 1}
  /\ calls # <<>> => calls[1].op = "begin"
  /\ \A i \in 2..Len(calls) :
       /\ responses[i-1].how = "ok"
       /\ <<calls[i-1].op, calls[i].op>> \in FollowsInOrder
       /\ calls[i].op = "results" =>
            /\ i = Len(calls)
            /\ statusSeen # <<>>
            /\ IsPredicted(Last(statusSeen))
C1_Witness ==
  /\ pc = "done"
  /\ outcome.kind = "result"
  /\ NumCalls("status") >= 2
  /\ Len(calls) = NumCalls("status") + 4

\* ------------------------------------------------------------------- C2
\* C2 as claimed: whatever the timeout, a run that enters waitForCompletion
\* performs its first status check.
C2_FirstCheckAlwaysOccurs == WaitEntered => NumCalls("status") >= 1

\* C2 as amended: the timeout is checked before every poll attempt, the first
\* included.  A status check is issued only when no timeout is given or the
\* elapsed time is below timeoutSeconds * 1000 ms; with timeoutSeconds = 0 no
\* status check is performed and the call fails at once with the timeout
\* TaskError, and with any other timeout drawn the first check does occur.
C2_TimeoutCheckedBeforeEachPoll ==
  /\ [][ (Len(calls') > Len(calls) /\ Last(calls').op = "status") =>
           (\/ timeoutSeconds' = Undefined
            \/ now' - startTime' < timeoutSeconds'[1] * 1000) ]_vars
  /\ [](WaitEntered =>
          IF timeoutSeconds = Some(0)
            THEN /\ NumCalls("status") = 0
                 /\ pc = "done"
                 /\ IsTimeoutError(outcome)
            ELSE NumCalls("status") >= 1)
C2_Witness ==
  /\ WaitEntered
  /\ timeoutSeconds = Some(0)
  /\ pc = "done"
  /\ IsTimeoutError(outcome)
  /\ NumCalls("status") = 0

\* ------------------------------------------------------------------- C3
\* C3: the UUID of the begin response is the one carried by initiate, every
\* status check and results, and the one in the returned result.
C3_BeginUuidEverywhere ==
  /\ \A i \in 1..Len(calls) :
       calls[i].op \in {"predict", "status", "results"} =>
         calls[i].uuid = beginResp[1].prediction_task_uuid
  /\ returned # Undefined =>
       returned[1].prediction_task_uuid = beginResp[1].prediction_task_uuid

\* ------------------------------------------------------------------- C4
\* C4: once a status check returns a state that starts with "failed", the
\* run has failed with a PredictionTaskError naming that state, and no
\* results request is ever issued.
C4_FailedStateFailsRun ==
  (statusSeen # <<>> /\ HasFailedPrefix(Last(statusSeen))) =>
    /\ pc = "done"
    /\ outcome.kind = "error"
    /\ outcome.name = "PredictionTaskError"
    /\ outcome.text = "Prediction task failed: "
    /\ outcome.state = Last(statusSeen)
    /\ NumCalls("results") = 0
    /\ returned = Undefined
C4_Witness ==
  /\ pc = "done"
  /\ statusSeen # <<>>
  /\ Last(statusSeen) = FAILED_INVALID_INPUT
  /\ outcome.state = FAILED_INVALID_INPUT

\* ------------------------------------------------------------------- C5
\* C5: every run ends in a result or in one of the four typed errors.
TypedErrorNames ==
  { "PredictionTaskBeginError", "PredictionUploadError",
    "PredictionTaskError", "PredictionTaskResultsUnavailableError" }
C5_TypedOutcomes ==
  pc = "done" =>
    \/ outcome.kind = "result"
    \/ outcome.kind = "error" /\ outcome.name \in TypedErrorNames

\* ------------------------------------------------------------------- C6
\* C6: a request that is rejected by the transport or answered with a
\* non-success status fails the run with the error kind of its stage.
StageErrorName(op) ==
  CASE op = "begin" -> "PredictionTaskBeginError"
    [] op = "upload" -> "PredictionUploadError"
    [] op = "predict" -> "PredictionTaskError"
    [] op = "status" -> "PredictionTaskError"
    [] op = "results" -> "PredictionTaskResultsUnavailableError"
C6_StageErrorKinds ==
  \A i \in 1..Len(responses) :
    responses[i].how \in {"rejected", "notOk"} =>
      /\ outcome.kind = "error"
      /\ outcome.name = StageErrorName(responses[i].op)

\* ------------------------------------------------------------------- C7
\* C7: a failure ends the run.  The failed request is the last one issued,
\* no stage is repeated or revisited, begin, upload, initiate and results
\* are issued at most once, a settled run issues nothing more, and a
\* non-success begin response gives PredictionTaskBeginError with the begin
\* request as the only request.
StageNo(op) ==
  CASE op = "begin" -> 1 [] op = "upload" -> 2 [] op = "predict" -> 3
    [] op = "status" -> 4 [] op = "results" -> 5
C7_FailureEndsRun ==
  /\ [](/\ \A op \in {"begin", "upload", "predict", "results"} :
             NumCalls(op) <= 1
        /\ \A i \in 1..Len(calls) : \A j \in i..Len(calls) :
             StageNo(calls[i].op) <= StageNo(calls[j].op)
        /\ \A i \in 1..Len(responses) :
             responses[i].how # "ok" =>
               /\ i = Len(calls)
               /\ pc = "done"
               /\ outcome.kind = "error"
        /\ outcome.kind = "error" =>
             (pc = "done" /\ returned = Undefined)
        /\ (responses # <<>> /\ responses[1].how = "notOk") =>
             /\ outcome.name = "PredictionTaskBeginError"
             /\ Len(calls) = 1)
  /\ [][pc = "done" => (pc' = "done" /\ calls' = calls
                        /\ outcome' = outcome)]_vars
C7_Witness ==
  /\ pc = "done"
  /\ responses = << Settled("begin", "notOk") >>
  /\ outcome.name = "PredictionTaskBeginError"

\* ------------------------------------------------------------------- C8
\* C8: with no timeout, when the status checks return n states that are not
\* final and then a final one, waitForCompletion has made n+1 checks, slept
\* n times (after each state that is not final, not after the final one)
\* and returned the last response without a timeout error.
C8_PollsAndSleeps ==
  (timeoutSeconds = Undefined /\ WaitEntered) =>
    /\ \A i \in 1..(Len(statusSeen) - 1) : ~IsFinal(statusSeen[i])
    /\ NumCalls("status") - Len(statusSeen) \in {0, 1}
    /\ (statusSeen # <<>> /\ IsFinal(Last(statusSeen))) =>
         /\ NumCalls("status") = Len(statusSeen)
         /\ sleeps = Len(statusSeen) - 1
         /\ status # Undefined
         /\ status[1].status = Last(statusSeen)
         /\ ~IsTimeoutError(outcome)
    /\ (statusSeen # <<>> /\ ~IsFinal(Last(statusSeen))) =>
         /\ status = Undefined
         /\ sleeps = IF pc = "sleep" THEN Len(statusSeen) - 1
                     ELSE Len(statusSeen)
C8_Witness ==
  /\ timeoutSeconds = Undefined
  /\ statusSeen = <<PENDING, PENDING, PREDICTED_STATUS>>
  /\ NumCalls("status") = 3
  /\ sleeps = 2
  /\ status # Undefined
  /\ status[1].status = PREDICTED_STATUS

\* ------------------------------------------------------------------- C9
\* C9: when the loop head is reached with a timeout given and the elapsed
\* time at or past it, no status check is issued and the run fails with a
\* PredictionTaskError that carries the task UUID and the timeout value; a
\* run that failed so never issues a results request.
C9_TimeoutStopsPolling ==
  /\ [][ (/\ LoopHeadStep
          /\ timeoutSeconds # Undefined
          /\ now' - startTime' >= timeoutSeconds[1] * 1000) =>
           /\ calls' = calls
           /\ pc' = "done"
           /\ IsTimeoutError(outcome')
           /\ outcome'.uuid = beginResp[1].prediction_task_uuid
           /\ outcome'.timeout = timeoutSeconds ]_vars
  /\ [](IsTimeoutError(outcome) =>
          /\ pc = "done"
          /\ NumCalls("results") = 0
          /\ returned = Undefined
          /\ Last(calls).op \in {"predict", "status"})
C9_Witness ==
  /\ IsTimeoutError(outcome)
  /\ timeoutSeconds = Some(1)
  /\ NumCalls("status") >= 1
  /\ sleeps >= 1
  /\ outcome.uuid = beginResp[1].prediction_task_uuid

\* ------------------------------------------------------------------ C10
\* C10: with no timeout the run never fails with the timeout error; the loop
\* is left only on a final status or a failed status request, a finished
\* sleep is always followed by another status check; and once the server
\* reports a final state the loop ends, returning that state unless the
\* status request itself fails.
InLoop == pc \in {"status", "sleep"}
C10_PollsIndefinitely ==
  /\ [](timeoutSeconds = Undefined => ~IsTimeoutError(outcome))
  /\ [][ (timeoutSeconds = Undefined /\ WaitEntered /\ InLoop /\ ~InLoop') =>
           /\ pc = "status"
           /\ \/ Last(responses').how # "ok"
              \/ IsFinal(Last(statusSeen')) ]_vars
  /\ [][ (timeoutSeconds = Undefined /\ pc = "sleep" /\ pc' # "sleep") =>
           /\ pc' = "status"
           /\ calls' = Append(calls, Last(calls)) ]_vars
  /\ (/\ timeoutSeconds = Undefined
      /\ InLoop
      /\ taskState \in FinalStates
      /\ pc = "sleep" => NumCalls("status") < MaxPolls)
       ~> (/\ ~InLoop
           /\ \/ status # Undefined /\ status[1].status = taskState
              \/ responses # <<>> /\ Last(responses).how # "ok")
C10_Witness ==
  /\ timeoutSeconds = Undefined
  /\ status # Undefined
  /\ sleeps >= 2
  /\ pc = "results"

\* ---------------------------------------------------------------- C16
UploadCalls == { calls[i] : i \in CallsOf("upload") }
OtherFields(rec) == DOMAIN rec \ {"prediction_task_uuid"}

\* C16: the value a run returns is the decoded results payload with exactly
\* one change: prediction_task_uuid is the UUID the results were requested
\* for (added when absent, overwritten when the server sent another one);
\* every other top-level field is the payload's, for image and for video.
C16_ResultIsPayloadPlusUuid ==
  returned # Undefined =>
    /\ resultsBody # Undefined
    /\ beginResp[1].prediction_type \in {"image", "video"}
    /\ Last(calls).op = "results"
    /\ returned[1] # Undefined
    /\ DOMAIN returned[1] = DOMAIN resultsBody[1] \cup {"prediction_task_uuid"}
    /\ returned[1].prediction_task_uuid = Last(calls).uuid
    /\ \A k \in OtherFields(resultsBody[1]) : returned[1][k] = resultsBody[1][k]

\* a run returned a payload whose own prediction_task_uuid was overwritten
C16_Witness ==
  /\ returned # Undefined
  /\ "prediction_task_uuid" \in DOMAIN resultsBody[1]
  /\ resultsBody[1].prediction_task_uuid # returned[1].prediction_task_uuid

\* ---------------------------------------------------------------- C18
\* C18: the upload request to the signed target carries no Authorization
\* header, and every begin, predict, status and results request carries
\* Authorization: Bearer <apiKey> with the client's key.
C18_AuthOnlyToTheApi ==
  \A i \in 1..Len(calls) :
    IF calls[i].op = "upload"
      THEN calls[i].auth = <<>>
      ELSE calls[i].auth = <<"Bearer", apiKey>>

\* a run that issued all five kinds of request
C18_Witness ==
  \A op \in {"begin", "upload", "predict", "status", "results"} :
    NumCalls(op) >= 1

\* ---------------------------------------------------------------- C19
FileParts(form) == { i \in 1..Len(form) : form[i].blob # Undefined }

\* C19: a run uploads at most once, and exactly once when it returns; the
\* upload goes to the URL of the first signed target of the begin response,
\* and its form is that target's fields, in order, each as text, followed by
\* exactly one file part that holds the media's blob.
C19_UploadToFirstTarget ==
  /\ NumCalls("upload") <= 1
  /\ outcome = Returned => NumCalls("upload") = 1
  /\ \A c \in UploadCalls :
       LET target == beginResp[1].signed_urls[1]
           n == Len(target.fields)
       IN /\ c.url = <<target.url>>
          /\ Len(c.form) = n + 1
          /\ \A i \in 1..n :
               /\ c.form[i].name = target.fields[i][1]
               /\ c.form[i].text = <<String(target.fields[i][2])>>
               /\ c.form[i].blob = <<>>
          /\ c.form[n + 1].name = "file"
          /\ c.form[n + 1].blob = <<media[1].blob>>
          /\ FileParts(c.form) = {n + 1}

\* an upload was issued after a begin response with two signed targets, the
\* first of which has extra fields
C19_Witness ==
  /\ NumCalls("upload") = 1
  /\ Len(beginResp[1].signed_urls) = 2
  /\ Len(beginResp[1].signed_urls[1].fields) = 2
  /\ Len(Last(calls).form) = 3

\* ---------------------------------------------------------------- C15
IsPredictedString(q) == q = <<"p","r","e","d","i","c","t","e","d">>
BeginsWithFailed(q) ==
  Len(q) >= 6 /\ SubSeq(q, 1, 6) = <<"f","a","i","l","e","d">>

\* C15: for every state string, successful iff it equals "predicted",
\* failed iff it starts with "failed", never both, and complete (terminal)
\* iff successful or failed; a string that is neither is in progress.
C15_StatusClasses ==
  verdict # Undefined =>
    LET q == probe[1]
        v == verdict[1]
    IN /\ v.successful <=> IsPredictedString(q)
       /\ v.failed <=> BeginsWithFailed(q)
       /\ ~(v.successful /\ v.failed)
       /\ v.complete <=> (v.successful \/ v.failed)

\* "failed_timeout" was classified as failed and terminal, not successful
C15_Witness ==
  /\ verdict # Undefined
  /\ probe[1] = <<"f","a","i","l","e","d","_","t","i","m","e","o","u","t">>
  /\ verdict[1].failed /\ verdict[1].complete /\ ~verdict[1].successful

\* --------------------------------------------------- media: vocabulary
Done == cons # Undefined /\ cons[1].stage = "done"
BuiltObject == Done /\ cons[1].result[1].value # Undefined
ThrewNamed(name) ==
  /\ Done
  /\ cons[1].result[1].thrown # Undefined
  /\ cons[1].result[1].thrown[1].name = name
FamilyOf(class) ==
  IF class = "Image" THEN <<"i","m","a","g","e","/">>
                     ELSE <<"v","i","d","e","o","/">>
InFamily(mime, class) ==
  Len(mime) >= 6 /\ SubSeq(mime, 1, 6) = FamilyOf(class)
UpToSemicolon(s) ==
  IF \E i \in 1..Len(s) : s[i] = ";"
    THEN SubSeq(s, 1, (CHOOSE i \in 1..Len(s) :
                         s[i] = ";" /\ \A j \in 1..(i - 1) : s[j] # ";") - 1)
    ELSE s

\* ---------------------------------------------------------------- C11
\* C11: whatever the entry path, an Image that was built has a mimeType
\* starting with "image/" and a Video one starting with "video/"; the object
\* is of the class that was called; the variant constructor checked the
\* family, and on every factory path the generic check had passed before.
C11_FamilyAlwaysChecked ==
  BuiltObject =>
    LET c == cons[1]
        r == c.result[1]
        object == r.value[1]
    IN /\ object.class = c.ctor
       /\ InFamily(object.mimeType, object.class)
       /\ r.variant
       /\ c.path # "new" => r.generic

\* an Image was built from base64 text after both checks
C11_Witness ==
  /\ BuiltObject
  /\ cons[1].path = "fromBase64"
  /\ cons[1].ctor = "Image"
  /\ cons[1].result[1].generic /\ cons[1].result[1].variant

\* ---------------------------------------------------------------- C12
\* C12: from raw bytes (fromArrayBuffer, fromUint8Array) with MIME string m,
\* Image is built iff m starts with "image/", Video iff m starts with
\* "video/", and every rejection is an IncorrectMediaTypeError.
C12_RawBytesFamily ==
  (Done /\ cons[1].path \in {"fromArrayBuffer", "fromUint8Array"}) =>
    LET c == cons[1]
        r == c.result[1]
    IN /\ r.value # Undefined <=> InFamily(c.mime[1], c.ctor)
       /\ r.value = Undefined => ThrewNamed("IncorrectMediaTypeError")

\* a Video was built from a Uint8Array
C12_Witness ==
  /\ BuiltObject
  /\ cons[1].path = "fromUint8Array"
  /\ cons[1].ctor = "Video"

\* ---------------------------------------------------------------- C13
\* C13: on every path that is given an explicit MIME string, the string is
\* trimmed before the family checks: the object is built iff the trimmed
\* string is in the called class's family, and it stores the trimmed string.
C13_TrimmedOnEveryPath ==
  ( /\ Done
    /\ cons[1].path \in {"fromBlob", "fromArrayBuffer", "fromUint8Array",
                         "fromBase64", "fromUrl", "fromFilePath"}
    /\ cons[1].mime # Undefined
    /\ BuiltObject \/ ThrewNamed("IncorrectMediaTypeError") ) =>
    LET c == cons[1]
        r == c.result[1]
    IN /\ r.value # Undefined <=> InFamily(trim(c.mime[1]), c.ctor)
       /\ r.value # Undefined => r.value[1].mimeType = trim(c.mime[1])

\* ---------------------------------------------------------------- C14
\* C14: a construction that fails with IncorrectMediaTypeError has issued
\* no network request.
C14_NoRequestBeforeMediaTypeError ==
  ThrewNamed("IncorrectMediaTypeError") => cons[1].requests = 0

\* C14, amended: a construction that fails with IncorrectMediaTypeError has
\* issued no network request, except fromUrl, which fails so only after its
\* one fetch was answered with a success response.
C14_MediaTypeErrorRequests ==
  ThrewNamed("IncorrectMediaTypeError") =>
    IF cons[1].path = "fromUrl"
      THEN /\ cons[1].requests = 1
           /\ cons[1].resp # Undefined
           /\ cons[1].resp[1].ok
      ELSE cons[1].requests = 0

\* fromUrl with an override outside both families failed after its fetch
C14_Witness ==
  /\ ThrewNamed("IncorrectMediaTypeError")
  /\ cons[1].path = "fromUrl"
  /\ cons[1].mime = <<<<"t","e","x","t","/","p","l","a","i","n">>>>
  /\ cons[1].requests = 1

\* ---------------------------------------------------------------- C20
\* C20: once fromUrl's fetch is answered: a non-success response gives a
\* generic Error whatever the override; otherwise the MIME type is the
\* override if one was passed, else the Content-Type header up to ";" if the
\* response has one, else the blob's type, trimmed; the object is built with
\* it iff it is in the called class's family, and fails with
\* IncorrectMediaTypeError if not.
C20_UrlMimePrecedence ==
  (Done /\ cons[1].path = "fromUrl" /\ cons[1].resp # Undefined) =>
    LET c == cons[1]
        r == c.result[1]
        resp == c.resp[1]
        expected ==
          IF c.mime # Undefined THEN trim(c.mime[1])
          ELSE IF resp.header # Undefined
                 THEN trim(UpToSemicolon(resp.header[1]))
                 ELSE trim(resp.blob.type)
    IN IF ~resp.ok
         THEN ThrewNamed("Error")
         ELSE /\ r.value # Undefined <=> InFamily(expected, c.ctor)
              /\ r.value # Undefined => r.value[1].mimeType = expected
              /\ r.value = Undefined => ThrewNamed("IncorrectMediaTypeError")

\* with no override and no Content-Type header, a Video was built with the
\* blob's own type
C20_Witness ==
  /\ BuiltObject
  /\ cons[1].path = "fromUrl"
  /\ cons[1].ctor = "Video"
  /\ cons[1].mime = Undefined
  /\ cons[1].resp[1].header = Undefined
  /\ cons[1].result[1].value[1].mimeType = <<"v","i","d","e","o","/","m","p","4">>

\* ---------------------------------------------------------------- C17
OwnUuid(r) == runs[r].beginResp[1].prediction_task_uuid
OwnTarget(r) == runs[r].beginResp[1].signed_urls[1]

\* C17: under every interleaving of concurrent runs, each run's upload goes
\* to the signed target of its own begin response, its predict, status and
\* results requests carry the UUID of its own begin response, the result it
\* returns carries that UUID, and the client's API key stays as constructed.
C17_RunsUseOwnBegin ==
  /\ apiKey = "key"
  /\ \A r \in Runs :
       /\ \A i \in 1..Len(runs[r].calls) :
            LET c == runs[r].calls[i]
            IN /\ c.op = "upload" => c.url = <<OwnTarget(r).url>>
               /\ c.op \in {"predict", "status", "results"} =>
                    c.uuid = OwnUuid(r)
       /\ runs[r].returned # Undefined =>
            runs[r].returned[1].prediction_task_uuid = OwnUuid(r)

\* ---------------------------------------------------------------- C27
PartsNamed(form, name) == { i \in 1..Len(form) : form[i].name = name }
BeginCalls == { calls[i] : i \in CallsOf("begin") }

\* C27: the begin request of predictImage has no frames_per_second field;
\* the begin request of predictVideo has exactly one, whose text is the
\* caller's value in decimal, or "1" when the caller passed none; the
\* mimetype field is the mimeType of the media the run was given.
C27_BeginFormFields ==
  \A c \in BeginCalls :
    LET fpsParts == PartsNamed(c.form, "frames_per_second")
        mimeParts == PartsNamed(c.form, "mimetype")
    IN /\ mimeParts = {1}
       /\ c.form[1].text = <<media[1].mimeType>>
       /\ called[1].method = "predictImage" => fpsParts = {}
       /\ called[1].method = "predictVideo" =>
            /\ fpsParts = {2}
            /\ c.form[2].text =
                 <<IF called[1].framesPerSecond = Undefined THEN <<"1">>
                   ELSE IF called[1].framesPerSecond[1] = 12
                          THEN <<"1", "2">>
                          ELSE <<>> >>

\* predictVideo was called without framesPerSecond and its begin request
\* says frames_per_second = "1"
C27_Witness ==
  /\ BeginCalls # {}
  /\ called[1].method = "predictVideo"
  /\ called[1].framesPerSecond = Undefined
  /\ calls[1].form[2].text = << <<"1">> >>

\* ------------------------------------------------------------------ C26
\* this step is the return of a status check that decodes
StatusReturnStep ==
  /\ pc = "status"
  /\ Len(responses') = Len(responses) + 1
  /\ Last(responses').how = "ok"
Elapsed == now - startTime
DeadlinePassed ==
  timeoutSeconds # Undefined /\ Elapsed >= timeoutSeconds[1] * 1000

\* C26: a status check in flight is always awaited: while it is in flight the
\* run has not failed, and it ends only with the check's response.  When the
\* check returns a final state, waitForCompletion returns that status with
\* no sleep and no timeout error, whatever the clock says by then.  The
\* timeout error is raised only by an evaluation of the loop head, on
\* entry or directly after a sleep.
C26_StatusCheckNotCutShort ==
  /\ [](pc = "status" =>
          /\ outcome.kind = "none"
          /\ Last(calls).op = "status"
          /\ Len(responses) = Len(calls) - 1)
  /\ [][ pc = "status" /\ pc' # "status" =>
           /\ Len(responses') = Len(responses) + 1
           /\ Last(responses').op = "status" ]_vars
  /\ [][ (StatusReturnStep /\ IsFinal(Last(statusSeen'))) =>
           /\ status' # Undefined
           /\ status'[1].status = Last(statusSeen')
           /\ sleeps' = sleeps
           /\ pc' # "sleep"
           /\ ~IsTimeoutError(outcome') ]_vars
  /\ [][ (IsTimeoutError(outcome') /\ ~IsTimeoutError(outcome)) =>
           /\ LoopHeadStep
           /\ calls' = calls ]_vars
\* a final state came back after the deadline had passed in flight
C26_Witness ==
  /\ DeadlinePassed
  /\ timeoutSeconds = Some(2)
  /\ sleeps = 1
  /\ Last(responses).op = "status"
  /\ Last(responses).how = "ok"
  /\ statusSeen = <<PENDING, PREDICTED_STATUS>>
  /\ status # Undefined
  /\ status[1].status = PREDICTED_STATUS
  /\ pc = "results"
  /\ outcome.kind = "none"
\* ------------------------------------------------------------------ C21
\* the MIME string fromBlob is to validate for the construction c: the
\* override when one was passed, the blob's own type otherwise
EffectiveType(c) ==
  trim(IF c.mime # Undefined THEN c.mime[1] ELSE c.blobType[1])

\* C21: fromBlob validates the override alone when one is supplied and the
\* blob's own type otherwise: the object is built iff that string is in the
\* called class's family and stores it, and any other outcome is an
\* IncorrectMediaTypeError, in particular with no override and an empty blob
\* type.  fromFile does the same with the file's type, and the object's
\* name is the name passed, or the file's name when none is passed.
C21_BlobTypeUnlessOverride ==
  (Done /\ cons[1].path \in {"fromBlob", "fromFile"}) =>
    LET c == cons[1]
        r == c.result[1]
    IN /\ r.value # Undefined <=> InFamily(EffectiveType(c), c.ctor)
       /\ r.value = Undefined => ThrewNamed("IncorrectMediaTypeError")
       /\ (c.mime = Undefined /\ c.blobType = Some(<<>>)) =>
            ThrewNamed("IncorrectMediaTypeError")
       /\ r.value # Undefined =>
            /\ r.value[1].mimeType = EffectiveType(c)
            /\ r.value[1].blob.type = c.blobType[1]
            /\ c.path = "fromFile" =>
                 r.value[1].name =
                   (IF c.name # Undefined THEN c.name ELSE c.fileName)
\* a Video built from a blob whose own type is an image type, by override
C21_Witness ==
  /\ BuiltObject
  /\ cons[1].path = "fromBlob"
  /\ cons[1].ctor = "Video"
  /\ cons[1].blobType = Some(IMAGE_PNG)
  /\ cons[1].mime = Some(VIDEO_MP4 \o <<" ">>)
  /\ cons[1].result[1].value[1].mimeType = VIDEO_MP4
\* ------------------------------------------------------------------ C22
ImageExtensions ==
  { <<".","j","p","g">>, <<".","j","p","e","g">>, <<".","p","n","g">>, <<".","w","e","b","p">>, <<".","g","i","f">>, <<".","b","m","p">>, <<".","s","v","g">> }
VideoExtensions ==
  { <<".","m","p","4">>, <<".","m","o","v">>, <<".","w","e","b","m">>, <<".","m","k","v">>, <<".","a","v","i">> }
ExtensionsOf(class) ==
  IF class = "Image" THEN ImageExtensions ELSE VideoExtensions
LowerCasedExtension(path) == toLowerCase(extname(path))

\* C22: fromFilePath, once the file is read: with an explicit MIME type the
\* object is built iff that type (trimmed) is in the called class's family,
\* whatever the extension; with none, iff the lower-cased extension is in
\* the called class's list, and the object's type is then in the family;
\* every other outcome is an IncorrectMediaTypeError.  When the read fails
\* the error is a generic one, not IncorrectMediaTypeError, whatever the
\* arguments.
C22_FilePathMimePrecedence ==
  (Done /\ cons[1].path = "fromFilePath") =>
    LET c == cons[1]
        r == c.result[1]
    IN IF c.readOk = Some(FALSE)
         THEN ThrewNamed("Error")
         ELSE /\ c.mime # Undefined =>
                   (r.value # Undefined <=> InFamily(trim(c.mime[1]), c.ctor))
              /\ c.mime = Undefined =>
                   (r.value # Undefined <=>
                      LowerCasedExtension(c.filePath[1]) \in ExtensionsOf(c.ctor))
              /\ r.value # Undefined =>
                   /\ InFamily(r.value[1].mimeType, c.ctor)
                   /\ c.mime # Undefined =>
                        r.value[1].mimeType = trim(c.mime[1])
              /\ r.value = Undefined => ThrewNamed("IncorrectMediaTypeError")
\* a Video built from an upper-case .MP4 path with no explicit type
C22_Witness ==
  /\ BuiltObject
  /\ cons[1].path = "fromFilePath"
  /\ cons[1].ctor = "Video"
  /\ cons[1].mime = Undefined
  /\ cons[1].filePath = Some(<<"v","/","b",".","M","P","4">>)
  /\ cons[1].result[1].value[1].mimeType = VIDEO_MP4
\* ------------------------------------------------------------------ C25
\* the MIME value the construction c put to the family checks, if there
\* was one: what the caller passed, or what the path resolved in its place
Offending(c) ==
  CASE c.path \in {"fromBlob", "fromFile"} -> Some(EffectiveType(c))
    [] c.path = "fromUrl" ->
         IF c.mime # Undefined THEN c.mime
         ELSE IF c.resp[1].header # Undefined
                THEN Some(UpToSemicolon(c.resp[1].header[1]))
                ELSE Some(c.resp[1].blob.type)
    [] c.path = "fromFilePath" ->
         IF c.mime # Undefined THEN c.mime
         ELSE IF LowerCasedExtension(c.filePath[1])
                   \in ImageExtensions \cup VideoExtensions
                THEN guessMimeByExt(LowerCasedExtension(c.filePath[1]))
                ELSE Undefined
    [] OTHER -> c.mime
\* the message text names the value v, as passed or trimmed; a value that is
\* absent or empty may be shown as it is or by a word that marks it missing
NamesValue(text, v) ==
  IF v = Undefined
    THEN text.got \in {MISSING, UNKNOWN}
         \/ text.template = <<"Cannot infer a valid MIME type for">>
    ELSE IF trim(v[1]) = <<>>
      THEN text.got \in {v[1], <<>>, MISSING, UNKNOWN}
      ELSE text.got \in {v[1], trim(v[1])}
NamesFamily(text, class) ==
  text.expected = (IF class = "Image" THEN "image/*" ELSE "video/*")

\* C25: every IncorrectMediaTypeError, on whatever path it was raised, has a
\* message that names the MIME value that was refused (or marks it as
\* missing) and the family of the class that was called.
C25_MessageNamesValueAndFamily ==
  ThrewNamed("IncorrectMediaTypeError") =>
    LET c == cons[1]
        text == c.result[1].thrown[1].text
    IN /\ NamesValue(text, Offending(c))
       /\ NamesFamily(text, c.ctor)
\* ------------------------------------------------------------------ C23
\* the standard base64 encoding of a byte sequence, padded with "="
RECURSIVE btoa(_)
btoa(b) ==
  IF b = <<>> THEN <<>>
  ELSE LET n == IF Len(b) < 3 THEN Len(b) ELSE 3
           v == b[1] * 65536 + (IF n >= 2 THEN b[2] ELSE 0) * 256
                + (IF n >= 3 THEN b[3] ELSE 0)
       IN << Base64Alphabet[(v \div 262144) + 1],
             Base64Alphabet[((v \div 4096) % 64) + 1],
             IF n >= 2 THEN Base64Alphabet[((v \div 64) % 64) + 1] ELSE "=",
             IF n >= 3 THEN Base64Alphabet[(v % 64) + 1] ELSE "=" >>
          \o btoa(SubSeq(b, n + 1, Len(b)))
RawBytesPaths == {"fromArrayBuffer", "fromUint8Array", "fromBase64"}
\* the blob holds the bytes the construction c was given
PayloadIsInput(c, blob) ==
  IF c.path = "fromBase64" THEN btoa(blob.bytes) = c.base64[1]
                           ELSE blob.bytes = c.bytes[1]
\* this step is a toBlob call or the orchestrator's reads on a built object
UseStep ==
  /\ BuiltObject
  /\ cons' # Undefined
  /\ \/ Len(cons'[1].payloads) = Len(cons[1].payloads) + 1
     \/ cons[1].forms = Undefined /\ cons'[1].forms # Undefined

\* C23: an object built from raw bytes (an ArrayBuffer, a Uint8Array, or the
\* base64 encoding of the bytes) holds exactly those bytes: every toBlob
\* call returns them, and the orchestrator's upload form carries them.  No
\* toBlob call and no read of the orchestrator changes the object: payload,
\* mimeType and name stay as constructed.
C23_RoundTripAndImmutable ==
  /\ []((BuiltObject /\ cons[1].path \in RawBytesPaths) =>
          LET c == cons[1]
              m == c.result[1].value[1]
          IN /\ PayloadIsInput(c, toBlob(m))
             /\ \A i \in 1..Len(c.payloads) : PayloadIsInput(c, c.payloads[i])
             /\ c.forms # Undefined =>
                  /\ PayloadIsInput(c, Last(c.forms[1].upload).blob[1])
                  /\ c.forms[1].begin[1].text = Some(m.mimeType))
  /\ [][ UseStep =>
           /\ cons'[1].result = cons[1].result
           /\ \A i \in 1..Len(cons'[1].payloads) :
                cons'[1].payloads[i] = cons[1].result[1].value[1].blob ]_vars
\* two toBlob calls and the orchestrator's reads on an Image built from
\* the base64 text of two bytes
C23_Witness ==
  /\ BuiltObject
  /\ cons[1].path = "fromBase64"
  /\ cons[1].base64 = Some(<<"i","V","A","=">>)
  /\ Len(cons[1].payloads) = 2
  /\ cons[1].payloads[2].bytes = <<137, 80>>
  /\ cons[1].forms # Undefined
\* ------------------------------------------------------------------ C24
\* C24: a construction given no apiKey while the variable is unset throws
\* the "API key is required" Error, yields no client and so issues no
\* request; a construction given an apiKey yields a client holding that key
\* whatever the variable holds; given none, the client holds the variable's
\* value; every client that exists holds a key, and every request issued
\* through a client carries that key.
C24_KeyRequiredAtConstruction ==
  \A i \in 1..Len(clients) :
    LET c == clients[i]
        r == c.result
    IN /\ (c.option = Undefined /\ c.env = Undefined) =>
            /\ r.thrown # Undefined
            /\ r.thrown[1].name = "Error"
            /\ r.thrown[1].text.template = <<"API key is required">>
            /\ r.client = Undefined
       /\ c.option # Undefined =>
            /\ r.thrown = Undefined
            /\ r.client # Undefined
            /\ r.client[1].apiKey = c.option
       /\ (c.option = Undefined /\ c.env # Undefined) =>
            /\ r.client # Undefined
            /\ r.client[1].apiKey = c.env
       /\ r.client # Undefined => r.client[1].apiKey # Undefined
       /\ r.client = Undefined => c.requests = <<>>
       /\ \A k \in 1..Len(c.requests) :
            c.requests[k].auth = <<"Bearer", r.client[1].apiKey>>
\* one construction failed for want of a key; another, given a key while
\* the variable held a different one, gave a client that issued a request
C24_Witness ==
  /\ Len(clients) = 2
  /\ clients[1].option = Undefined
  /\ clients[1].env = Undefined
  /\ clients[1].result.thrown # Undefined
  /\ clients[2].option = Some("argkey")
  /\ clients[2].env = Some("envkey")
  /\ clients[2].result.client = Some([apiKey |-> Some("argkey")])
  /\ clients[2].requests # <<>>
====
